---- MODULE Spec2Model ----
(***************************************************************************)
(* Model of the content script src/js/scripts.js of "600% Sound Volume":  *)
(* the volume state, the per-element gain graph, media discovery and the   *)
(* message handler.  One action per handler / callback / document event.   *)
(***************************************************************************)
EXTENDS Integers, Sequences, FiniteSets, TLC

(***************************************************************************)
(* Bounds and program constants                                            *)
(***************************************************************************)
\* number of media elements the document may hold over its lifetime
NumElements == 1

\* let currentVolume = 100 / storage default { savedVolume: 100 }
DefaultVolume == 100
\* lower and upper limits of the range test in handleMessage / saveVolume
MinVolume == 0
MaxVolume == 600
\* divisor of "volume / 100"
GainDivisor == 100

Elements == 1..NumElements

(***************************************************************************)
(* JavaScript values that reach the script from outside                    *)
(***************************************************************************)
JsNum(n) == [t |-> "number", n |-> n, s |-> ""]
JsNaN == [t |-> "NaN", n |-> 0, s |-> ""]
JsUndefined == [t |-> "undefined", n |-> 0, s |-> ""]
JsNull == [t |-> "null", n |-> 0, s |-> ""]
JsStr(str) == [t |-> "string", n |-> 0, s |-> str]
JsBool(b) == [t |-> "boolean", n |-> IF b THEN 1 ELSE 0, s |-> ""]

\* Number(x): the conversion used on request and storage values.
\* Number(undefined) is NaN, Number(null) is 0, Number("") is 0,
\* Number(true) is 1, Number(false) is 0, a numeric string parses,
\* any other string is NaN.
ToNumber(x) ==
    CASE x.t = "number" -> x
      [] x.t = "NaN" -> JsNaN
      [] x.t = "undefined" -> JsNaN
      [] x.t = "null" -> JsNum(0)
      [] x.t = "boolean" -> JsNum(x.n)
      [] x.t = "string" ->
            CASE x.s = "" -> JsNum(0)
              [] x.s = "300" -> JsNum(300)
              [] OTHER -> JsNaN

\* isNaN on the result of Number()
IsNaN(x) == x.t = "NaN"

\* !isNaN(vol) && vol >= 0 && vol <= 600
InRange(vol) == ~IsNaN(vol) /\ vol.n >= MinVolume /\ vol.n <= MaxVolume

\* values a changeSoundVolume request may carry in data.soundVolume
RequestValues ==
    { JsNum(-1), JsNum(0), JsNum(100), JsNum(300), JsNum(600), JsNum(601),
      JsUndefined, JsNull, JsNaN, JsStr(""), JsStr("abc"), JsStr("300"),
      JsBool(FALSE) }

\* request.data: absent, or an object with a soundVolume property
NoData == [present |-> FALSE, soundVolume |-> JsUndefined]
RequestData == {NoData} \cup { [present |-> TRUE, soundVolume |-> v] : v \in RequestValues }

\* the requests that may arrive: a volume change with any data, a volume query,
\* and a message meant for another listener
Requests ==
    { [action |-> "changeSoundVolume", data |-> d] : d \in RequestData }
    \cup { [action |-> "getSoundVolume", data |-> NoData],
           [action |-> "other", data |-> NoData] }

\* what the storage area may hold under savedVolume when the script starts
StoredValues == { JsUndefined, JsNum(300), JsNum(700), JsStr("abc") }

(***************************************************************************)
(* Media sources and host policy                                           *)
(***************************************************************************)
\* element.src || element.currentSrc: empty, a URL on an ordinary host,
\* or a URL containing one of IGNORED_HOSTS
SrcValues == {"", "https://example.org/a.mp4", "https://computerbase.de/v.mp4"}
IGNORED_URLS == {"https://computerbase.de/v.mp4"}

\* Mutant: the ignored-host list is never consulted.
isIgnoredHost_NeverIgnored(url) == FALSE

isIgnoredHost(url) ==
    IF url = "" THEN FALSE ELSE url \in IGNORED_URLS

(***************************************************************************)
(* Gain values                                                             *)
(***************************************************************************)
\* Mutant: the division by 100 is forgotten.
GainValue_Undivided(volume) == [whole |-> volume, frac |-> 0]

\* volume / 100 as a decimal with two fractional digits
\* (300 -> 3.00, 150 -> 1.50, 0 -> 0.00)
GainValue(volume) == [whole |-> volume \div GainDivisor, frac |-> volume % GainDivisor]

\* the default value of a new GainNode: 1.0
UnityGain == [whole |-> 1, frac |-> 0]

(***************************************************************************)
(* State                                                                   *)
(***************************************************************************)
VARIABLES
    hasBrowser,         \* typeof browser !== 'undefined' in this context
    currentVolume,      \* let currentVolume
    sharedAudioContext, \* let sharedAudioContext: 0 is null, k the k-th AudioContext
    contextsCreated,    \* number of AudioContext objects constructed so far
    elementGainNodes,   \* WeakMap element -> { gain, source, failed }
    processedElements,  \* WeakSet of elements seen by processMediaElement
    playListeners,      \* elements carrying the onMediaPlay 'play' listener
    listenerAdds,       \* per element, the addEventListener('play', ...) calls made
    unresolved,         \* entry-less elements setupAudioContext returned null for (history)
    attached,           \* elements in the document: querySelectorAll('video, audio')
    paused,             \* element.paused
    src,                \* element.src || element.currentSrc
    storage,            \* storage.local value under the key savedVolume
    pendingRead,        \* what the storage read issued by init() will deliver
    loading,            \* the storage read of loadSavedVolume has not called back yet
    observing,          \* the MutationObserver of setupMutationObserver is installed
    lastWrite,          \* argument of the most recent storage.local.set, <<>> if none
    lastNotify,         \* soundVolume of the most recent runtime.sendMessage, <<>> if none
    last                \* what the most recent handler run did (history, read by no handler)

vars == << hasBrowser, currentVolume, sharedAudioContext, contextsCreated,
           elementGainNodes, processedElements, playListeners, listenerAdds,
           unresolved, attached, paused, src, storage, pendingRead, loading, observing, lastWrite, lastNotify, last >>

domVars == << attached, paused, src >>

\* entries of elementGainNodes
NoEntry == [status |-> "none", gain |-> UnityGain, ctx |-> 0]
FailedEntry == [status |-> "Failed", gain |-> UnityGain, ctx |-> 0]
ReadyEntry(g, c) == [status |-> "Ready", gain |-> g, ctx |-> c]

\* elements of S in document order
RECURSIVE Ordered(_)
Ordered(S) ==
    IF S = {} THEN << >>
    ELSE LET m == CHOOSE x \in S : \A y \in S : x <= y
         IN << m >> \o Ordered(S \ {m})

\* getMediaElements(): Array.from(document.querySelectorAll('video, audio'))
getMediaElements == Ordered(attached)

\* outcomes of the platform calls a handler run makes:
\* ctxOk      - new AudioContext() does not throw (asked only while there is none)
\* buildOk[e] - createGain / createMediaElementSource / connect do not throw
\*              for e (asked only for an element that has no entry yet)
Outcomes ==
    { [ctxOk |-> c, buildOk |-> [e \in Elements |-> e \notin f]] :
        c \in (IF sharedAudioContext = 0 THEN BOOLEAN ELSE {TRUE}),
        f \in SUBSET { e \in Elements : elementGainNodes[e].status = "none" } }

(***************************************************************************)
(* The engine's functions.  Each takes and returns the record m of the     *)
(* script's mutable state together with the log of the running handler.    *)
(***************************************************************************)
Machine ==
    [ currentVolume |-> currentVolume,
      sharedAudioContext |-> sharedAudioContext,
      contextsCreated |-> contextsCreated,
      elementGainNodes |-> elementGainNodes,
      processedElements |-> processedElements,
      playListeners |-> playListeners,
      listenerAdds |-> listenerAdds,
      unresolved |-> unresolved,
      storage |-> storage,
      lastWrite |-> lastWrite,
      lastNotify |-> lastNotify,
      writes |-> << >>,     \* storage.local.set calls of this run
      notifs |-> << >>,     \* runtime.sendMessage calls of this run
      replies |-> << >>,    \* sendResponse calls of this run
      calls |-> << >>,      \* applyVolumeToElement calls of this run
      muts |-> << >> ]      \* gain parameter assignments of this run

\* Mutant: the default volume is taken as "nothing to save".
saveVolume_SkipsDefault(m, volume) ==
    LET vol == ToNumber(volume)
    IN IF InRange(vol) /\ vol.n # DefaultVolume
       THEN [m EXCEPT !.writes = Append(@, vol.n),
                      !.lastWrite = << vol.n >>,
                      !.storage = JsNum(vol.n)]
       ELSE m

\* saveVolume(volume).  A throwing storage.local.set is caught inside and
\* leaves the script as a successful one does; the model follows the value
\* handed to set.
saveVolume(m, volume) ==
    LET vol == ToNumber(volume)
    IN IF InRange(vol)
       THEN [m EXCEPT !.writes = Append(@, vol.n),
                      !.lastWrite = << vol.n >>,
                      !.storage = JsNum(vol.n)]
       ELSE m

\* sendToBackground(action): the message carries currentVolume; the promise
\* and the response callback touch no state of the script
sendToBackground(m, action) ==
    [m EXCEPT !.notifs = Append(@, [action |-> action, soundVolume |-> m.currentVolume]),
              !.lastNotify = << m.currentVolume >>]

\* Mutant: a context is constructed on every call.
getSharedAudioContext_AlwaysNew(m, ok) ==
    IF ok /\ m.contextsCreated < 2
    THEN [m EXCEPT !.sharedAudioContext = m.contextsCreated + 1,
                   !.contextsCreated = m.contextsCreated + 1]
    ELSE m

\* getSharedAudioContext(): the context is never closed by the script, so the
\* 'closed' test never fires; resume() changes nothing the script reads
getSharedAudioContext(m, ok) ==
    IF m.sharedAudioContext = 0
    THEN IF ok
         THEN [m EXCEPT !.sharedAudioContext = m.contextsCreated + 1,
                        !.contextsCreated = m.contextsCreated + 1]
         ELSE m
    ELSE m

\* Mutant: an element without a usable source is marked as failed.
setupAudioContext_MarksUnresolvedFailed(m, e, env) ==
    IF m.elementGainNodes[e].status # "none"
    THEN [m |-> m, ret |-> m.elementGainNodes[e].status, built |-> FALSE]
    ELSE IF src[e] = "" \/ isIgnoredHost(src[e])
    THEN [m |-> [m EXCEPT !.elementGainNodes[e] = FailedEntry,
                          !.unresolved = @ \cup {e}],
          ret |-> "null", built |-> FALSE]
    ELSE LET m0 == getSharedAudioContext(m, env.ctxOk)
             m1 == [m0 EXCEPT !.unresolved = @ \ {e}]
         IN IF m1.sharedAudioContext = 0
            THEN [m |-> [m1 EXCEPT !.elementGainNodes[e] = FailedEntry],
                  ret |-> "null", built |-> FALSE]
            ELSE IF env.buildOk[e]
            THEN [m |-> [m1 EXCEPT !.elementGainNodes[e] =
                                       ReadyEntry(UnityGain, m1.sharedAudioContext)],
                  ret |-> "Ready", built |-> TRUE]
            ELSE [m |-> [m1 EXCEPT !.elementGainNodes[e] = FailedEntry],
                  ret |-> "null", built |-> TRUE]

\* Mutant: a failed entry does not stop a new attempt.
setupAudioContext_Retry(m, e, env) ==
    IF m.elementGainNodes[e].status = "Ready"
    THEN [m |-> m, ret |-> "Ready", built |-> FALSE]
    ELSE IF src[e] = "" \/ isIgnoredHost(src[e])
    THEN [m |-> m, ret |-> "null", built |-> FALSE]
    ELSE LET m1 == getSharedAudioContext(m, env.ctxOk)
         IN IF m1.sharedAudioContext = 0
            THEN [m |-> [m1 EXCEPT !.elementGainNodes[e] = FailedEntry],
                  ret |-> "null", built |-> FALSE]
            ELSE [m |-> [m1 EXCEPT !.elementGainNodes[e] =
                                       ReadyEntry(UnityGain, m1.sharedAudioContext)],
                  ret |-> "Ready", built |-> TRUE]

\* setupAudioContext(mediaElement): returns the machine, what the call returned
\* ("null", or the status of the entry returned) and whether it reached the
\* construction of a gain node and a media-source node (built)
setupAudioContext(m, e, env) ==
    IF m.elementGainNodes[e].status # "none"
    THEN [m |-> m, ret |-> m.elementGainNodes[e].status, built |-> FALSE]
    ELSE IF src[e] = "" \/ isIgnoredHost(src[e])
    THEN [m |-> [m EXCEPT !.unresolved = @ \cup {e}], ret |-> "null", built |-> FALSE]
    ELSE LET m0 == getSharedAudioContext(m, env.ctxOk)
             m1 == [m0 EXCEPT !.unresolved = @ \ {e}]
         IN IF m1.sharedAudioContext = 0
            THEN [m |-> [m1 EXCEPT !.elementGainNodes[e] = FailedEntry],
                  ret |-> "null", built |-> FALSE]
            ELSE IF env.buildOk[e]
            THEN [m |-> [m1 EXCEPT !.elementGainNodes[e] =
                                       ReadyEntry(UnityGain, m1.sharedAudioContext)],
                  ret |-> "Ready", built |-> TRUE]
            ELSE [m |-> [m1 EXCEPT !.elementGainNodes[e] = FailedEntry],
                  ret |-> "null", built |-> TRUE]

\* Mutant: the gain is assigned without comparing it first.
applyVolumeToElement_AlwaysSets(m, e, volume, site, env) ==
    LET r == setupAudioContext(m, e, env)
        call == [el |-> e, site |-> site, volume |-> volume, setup |-> r.ret,
                 built |-> r.built, before |-> m.elementGainNodes[e],
                 retry |-> e \in m.unresolved, applied |-> FALSE, mutated |-> FALSE]
    IN IF r.ret = "null" \/ r.ret = "Failed"
       THEN [r.m EXCEPT !.calls = Append(@, call)]
       ELSE [r.m EXCEPT !.elementGainNodes[e].gain = GainValue(volume),
                        !.muts = Append(@, [el |-> e, gain |-> GainValue(volume)]),
                        !.calls = Append(@, [call EXCEPT !.applied = TRUE,
                                                         !.mutated = TRUE])]

\* applyVolumeToElement(mediaElement, volume), called from `site`.  The call is
\* logged with what setupAudioContext returned and the value it returns itself.
applyVolumeToElement(m, e, volume, site, env) ==
    LET r == setupAudioContext(m, e, env)
        call == [el |-> e, site |-> site, volume |-> volume, setup |-> r.ret,
                 built |-> r.built, before |-> m.elementGainNodes[e],
                 retry |-> e \in m.unresolved, applied |-> FALSE, mutated |-> FALSE]
    IN IF r.ret = "null" \/ r.ret = "Failed"
       THEN [r.m EXCEPT !.calls = Append(@, call)]
       ELSE LET gainValue == GainValue(volume)
                currentGainValue == r.m.elementGainNodes[e].gain
            IN IF currentGainValue # gainValue
               THEN \* setValueAtTime(gainValue, currentTime), or the direct
                    \* assignment when the context is unavailable: both set the gain
                    LET m2 == getSharedAudioContext(r.m, env.ctxOk)
                    IN [m2 EXCEPT !.elementGainNodes[e].gain = gainValue,
                                  !.muts = Append(@, [el |-> e, gain |-> gainValue]),
                                  !.calls = Append(@, [call EXCEPT !.applied = TRUE,
                                                                   !.mutated = TRUE])]
               ELSE [r.m EXCEPT !.calls = Append(@, [call EXCEPT !.applied = TRUE])]

\* Mutant: the play listener applies nothing.
onMediaPlay_Idle(m, e, env) == m

\* onMediaPlay(event) for event.target = e
onMediaPlay(m, e, env) ==
    IF hasBrowser
    THEN applyVolumeToElement(m, e, m.currentVolume, "onMediaPlay", env)
    ELSE m

\* Mutant: an element already processed is processed again.
processMediaElement_NoGuard(m, e, env) ==
    LET m1 == [m EXCEPT !.processedElements = @ \cup {e},
                        !.playListeners = @ \cup {e},
                        !.listenerAdds[e] = IF @ < 2 THEN @ + 1 ELSE @]
    IN IF ~paused[e] /\ hasBrowser
       THEN applyVolumeToElement(m1, e, m1.currentVolume, "processMediaElement", env)
       ELSE m1

\* Mutant: a playing element is given the volume whatever the environment.
processMediaElement_NoEnvCheck(m, e, env) ==
    IF e \in m.processedElements
    THEN m
    ELSE LET m1 == [m EXCEPT !.processedElements = @ \cup {e},
                             !.playListeners = @ \cup {e},
                             !.listenerAdds[e] = @ + 1]
         IN IF ~paused[e]
            THEN applyVolumeToElement(m1, e, m1.currentVolume, "processMediaElement", env)
            ELSE m1

\* processMediaElement(element)
processMediaElement(m, e, env) ==
    IF e \in m.processedElements
    THEN m
    ELSE LET m1 == [m EXCEPT !.processedElements = @ \cup {e},
                             !.playListeners = @ \cup {e},
                             !.listenerAdds[e] = @ + 1]
         IN IF ~paused[e] /\ hasBrowser
            THEN applyVolumeToElement(m1, e, m1.currentVolume, "processMediaElement", env)
            ELSE m1

\* Mutant: the loop applies the volume without looking at the source.
RECURSIVE changeEach_AnySource(_, _, _)
changeEach_AnySource(m, els, env) ==
    IF els = << >> THEN m
    ELSE LET e == Head(els)
             m1 == processMediaElement(m, e, env)
             m2 == applyVolumeToElement(m1, e, m1.currentVolume, "changeSoundVolume", env)
         IN changeEach_AnySource(m2, Tail(els), env)

\* the forEach body of changeSoundVolume, over the elements els
RECURSIVE changeEach(_, _, _)
changeEach(m, els, env) ==
    IF els = << >> THEN m
    ELSE LET e == Head(els)
             m1 == processMediaElement(m, e, env)
             m2 == IF src[e] # "" /\ ~isIgnoredHost(src[e])
                   THEN applyVolumeToElement(m1, e, m1.currentVolume, "changeSoundVolume", env)
                   ELSE m1
         IN changeEach(m2, Tail(els), env)

\* Mutant: the volume is not handed to persistence.
changeSoundVolume_NoSave(m, env) ==
    LET m2 == sendToBackground(m, "changeSoundVolume")
    IN IF ~hasBrowser
       THEN m2
       ELSE changeEach(m2, getMediaElements, env)

\* changeSoundVolume()
changeSoundVolume(m, env) ==
    LET m1 == saveVolume(m, JsNum(m.currentVolume))
        m2 == sendToBackground(m1, "changeSoundVolume")
    IN IF ~hasBrowser
       THEN m2
       ELSE changeEach(m2, getMediaElements, env)

\* Mutant: the reply is prepared before the request is applied.
handleMessage_StaleReply(m, request, env) ==
    IF request.action = "changeSoundVolume"
    THEN LET m1 == IF request.data.present /\ request.data.soundVolume.t # "undefined"
                   THEN LET newVolume == ToNumber(request.data.soundVolume)
                        IN IF InRange(newVolume)
                           THEN changeSoundVolume([m EXCEPT !.currentVolume = newVolume.n], env)
                           ELSE m
                   ELSE m
         IN [m1 EXCEPT !.replies = Append(@, m.currentVolume)]
    ELSE IF request.action = "getSoundVolume"
    THEN [m EXCEPT !.replies = Append(@, m.currentVolume)]
    ELSE m

\* handleMessage(request, sender, sendResponse)
handleMessage(m, request, env) ==
    IF request.action = "changeSoundVolume"
    THEN LET m1 == IF request.data.present /\ request.data.soundVolume.t # "undefined"
                   THEN LET newVolume == ToNumber(request.data.soundVolume)
                        IN IF InRange(newVolume)
                           THEN changeSoundVolume([m EXCEPT !.currentVolume = newVolume.n], env)
                           ELSE m
                   ELSE m
         IN [m1 EXCEPT !.replies = Append(@, m1.currentVolume)]
    ELSE IF request.action = "getSoundVolume"
    THEN [m EXCEPT !.replies = Append(@, m.currentVolume)]
    ELSE m

\* getMediaElements().forEach(processMediaElement)
RECURSIVE processEach(_, _, _)
processEach(m, els, env) ==
    IF els = << >> THEN m
    ELSE processEach(processMediaElement(m, Head(els), env), Tail(els), env)

\* the storage callback of loadSavedVolume followed by the then-handler of init;
\* storage.local.get({ savedVolume: 100 }) yields the default for a missing key
loadSavedVolume(m, lastError, env) ==
    LET result == IF pendingRead.t = "undefined" THEN JsNum(DefaultVolume) ELSE pendingRead
        vol == ToNumber(result)
        m1 == IF lastError
              THEN [m EXCEPT !.currentVolume = DefaultVolume]
              ELSE [m EXCEPT !.currentVolume = IF IsNaN(vol) THEN DefaultVolume ELSE vol.n]
    IN processEach(m1, getMediaElements, env)

\* the loop over getMediaElements() at the end of the MutationObserver callback
RECURSIVE observerApplyEach(_, _, _)
observerApplyEach(m, els, env) ==
    IF els = << >> THEN m
    ELSE LET e == Head(els)
             m1 == IF ~paused[e]
                   THEN applyVolumeToElement(m, e, m.currentVolume, "observer", env)
                   ELSE m
         IN observerApplyEach(m1, Tail(els), env)

\* the MutationObserver callback for a batch whose added nodes hold the media
\* elements `added` (as the nodes themselves or inside added subtrees);
\* `now` are the elements in the document when the callback runs
mutationCallback(m, added, now, env) ==
    LET m1 == processEach(m, Ordered(added), env)
        hasNewMedia == added # {}
    IN IF hasNewMedia /\ hasBrowser
       THEN observerApplyEach(m1, Ordered(now), env)
       ELSE m1

(***************************************************************************)
(* Actions                                                                 *)
(***************************************************************************)
NoRequest == [action |-> "none", data |-> NoData]

\* what the storage callback was given: runtime.lastError set, or a result
LoadResult(lastError, value) ==
    [action |-> "storage", data |-> [present |-> ~lastError, soundVolume |-> value]]

\* the state after a handler run that ended in machine m
Commit(m, op, els, request) ==
    /\ currentVolume' = m.currentVolume
    /\ sharedAudioContext' = m.sharedAudioContext
    /\ contextsCreated' = m.contextsCreated
    /\ elementGainNodes' = m.elementGainNodes
    /\ processedElements' = m.processedElements
    /\ playListeners' = m.playListeners
    /\ listenerAdds' = m.listenerAdds
    /\ unresolved' = m.unresolved
    /\ storage' = m.storage
    /\ lastWrite' = m.lastWrite
    /\ lastNotify' = m.lastNotify
    /\ last' = [op |-> op, els |-> els, request |-> request,
                preVolume |-> currentVolume, preNotify |-> lastNotify,
                writes |-> m.writes, notifs |-> m.notifs, replies |-> m.replies,
                calls |-> m.calls, muts |-> m.muts]

Init ==
    /\ hasBrowser \in BOOLEAN
    /\ currentVolume = DefaultVolume
    /\ sharedAudioContext = 0
    /\ contextsCreated = 0
    /\ elementGainNodes = [e \in Elements |-> NoEntry]
    /\ processedElements = {}
    /\ playListeners = {}
    /\ listenerAdds = [e \in Elements |-> 0]
    /\ unresolved = {}
    /\ attached = {}
    /\ paused = [e \in Elements |-> TRUE]
    /\ src = [e \in Elements |-> ""]
    /\ storage \in StoredValues
    \* init() has run: the listener is registered and the storage read is pending,
    \* or storage.local.get threw and the then-handler has already run
    /\ loading \in BOOLEAN
    /\ pendingRead = IF loading THEN storage ELSE JsUndefined
    /\ observing = ~loading
    /\ lastWrite = << >>
    /\ lastNotify = << >>
    /\ last = [op |-> "init", els |-> {}, request |-> NoRequest,
               preVolume |-> DefaultVolume, preNotify |-> << >>,
               writes |-> << >>, notifs |-> << >>, replies |-> << >>,
               calls |-> << >>, muts |-> << >>]

\* a message arrives on runtime.onMessage
HandleMessage ==
    \E request \in Requests, env \in Outcomes :
        /\ Commit(handleMessage(Machine, request, env), "message", {}, request)
        /\ UNCHANGED << hasBrowser, domVars, pendingRead, loading, observing >>

\* the storage read completes: currentVolume is set, the document is scanned
\* and the observer is installed
LoadCallback ==
    \E lastError \in BOOLEAN, env \in Outcomes :
        /\ loading
        /\ loading' = FALSE
        /\ pendingRead' = JsUndefined
        /\ observing' = TRUE
        /\ Commit(loadSavedVolume(Machine, lastError, env), "load", {},
                  LoadResult(lastError, pendingRead))
        /\ UNCHANGED << hasBrowser, domVars >>

\* the page inserts media elements (directly or inside a subtree)
InsertNodes ==
    \E added \in (SUBSET (Elements \ attached)) \ {{}}, env \in Outcomes :
        /\ attached' = attached \cup added
        /\ Commit(IF observing
                  THEN mutationCallback(Machine, added, attached \cup added, env)
                  ELSE Machine,
                  "insert", added, NoRequest)
        /\ UNCHANGED << hasBrowser, paused, src, pendingRead, loading, observing >>

\* the page removes a media element; the observer sees no added media
RemoveNode ==
    \E e \in attached :
        /\ attached' = attached \ {e}
        /\ Commit(Machine, "remove", {e}, NoRequest)
        /\ UNCHANGED << hasBrowser, paused, src, pendingRead, loading, observing >>

\* an element starts playing: 'play' fires on it
Play ==
    \E e \in Elements, env \in Outcomes :
        /\ paused[e]
        /\ paused' = [paused EXCEPT ![e] = FALSE]
        /\ Commit(IF e \in playListeners THEN onMediaPlay(Machine, e, env) ELSE Machine,
                  "play", {e}, NoRequest)
        /\ UNCHANGED << hasBrowser, attached, src, pendingRead, loading, observing >>

\* an element pauses or ends
Pause ==
    \E e \in Elements :
        /\ ~paused[e]
        /\ paused' = [paused EXCEPT ![e] = TRUE]
        /\ Commit(Machine, "pause", {e}, NoRequest)
        /\ UNCHANGED << hasBrowser, attached, src, pendingRead, loading, observing >>

\* the page gives an element another source
SetSrc ==
    \E e \in Elements, s \in SrcValues :
        /\ s # src[e]
        /\ src' = [src EXCEPT ![e] = s]
        /\ Commit(Machine, "src", {e}, NoRequest)
        /\ UNCHANGED << hasBrowser, attached, paused, pendingRead, loading, observing >>

Next ==
    \/ HandleMessage
    \/ LoadCallback
    \/ InsertNodes
    \/ RemoveNode
    \/ Play
    \/ Pause
    \/ SetSrc

Spec == Init /\ [][Next]_vars

\* saveVolume(volume) called on its own with any value.  storage.local.set may
\* throw or fail to store (setOk false): the catch swallows it and the stored
\* value stays as it was.
SaveVolumeCall ==
    \E volume \in RequestValues, setOk \in BOOLEAN :
        LET m == saveVolume(Machine, volume)
        IN /\ Commit([m EXCEPT !.storage = IF setOk THEN @ ELSE storage], "save", {},
                     [action |-> "saveVolume",
                      data |-> [present |-> TRUE, soundVolume |-> volume]])
           /\ UNCHANGED << hasBrowser, domVars, pendingRead, loading, observing >>

\* the paths that read or write the persistence key, with saveVolume exposed
NextSave ==
    \/ HandleMessage
    \/ LoadCallback
    \/ SaveVolumeCall

SpecSave == Init /\ [][NextSave]_vars

(***************************************************************************)
(* Vocabulary of the properties                                            *)
(***************************************************************************)
NormalSrc(e) == src[e] # "" /\ src[e] \notin IGNORED_URLS
IgnoredSrc(e) == src[e] \in IGNORED_URLS

\* the run just finished handled a changeSoundVolume request
IsChange == last.op = "message" /\ last.request.action = "changeSoundVolume"
IsGet == last.op = "message" /\ last.request.action = "getSoundVolume"
Requested == last.request.data.soundVolume

\* the request carried a number within [0, 600]
NumericInRange ==
    /\ last.request.data.present
    /\ Requested.t = "number"
    /\ Requested.n >= 0 /\ Requested.n <= 600

\* the request carried text that reads as a number within [0, 600]
NumericText == last.request.data.present /\ Requested = JsStr("300")

\* the volume the request asks for, when it asks for a usable one
RequestedVolume == IF NumericText THEN 300 ELSE Requested.n

\* the run wrote nothing, notified nobody and changed no gain
NoEffects == last.writes = << >> /\ last.notifs = << >> /\ last.muts = << >>

Notification(v) == [action |-> "changeSoundVolume", soundVolume |-> v]

CallsOf(e) == { i \in DOMAIN last.calls : last.calls[i].el = e }

(***************************************************************************)
(* C1 - rejected requests                                                  *)
(***************************************************************************)
\* C1: a changeSoundVolume request whose data.soundVolume is missing, is not a
\* number (null, "", a boolean, NaN, other text) or lies outside [0, 600]
\* leaves currentVolume as it was and causes no persistence write, no
\* notification and no gain change.
C1_InvalidRequestChangesNothing ==
    (IsChange /\ ~NumericInRange /\ ~NumericText)
        => (currentVolume = last.preVolume /\ NoEffects)

(***************************************************************************)
(* C2 - 100 -> 300 with one playing element                                *)
(***************************************************************************)
\* C2: with the audio facility exposed, after a request for 300 handled at
\* volume 100, persistence was handed 300, the companion was sent soundVolume
\* 300, and every attached playing element with a non-empty, non-ignored
\* source whose graph construction did not fail has a Ready entry with gain 3.0.
C2_ChangeTo300 ==
    (hasBrowser /\ IsChange /\ Requested = JsNum(300) /\ last.preVolume = 100)
        => /\ last.writes = << 300 >>
           /\ last.notifs = << Notification(300) >>
           /\ \A e \in attached :
                (~paused[e] /\ NormalSrc(e) /\ elementGainNodes[e].status # "Failed")
                    => /\ elementGainNodes[e].status = "Ready"
                       /\ elementGainNodes[e].gain = [whole |-> 3, frac |-> 0]

C2_Witness ==
    /\ hasBrowser /\ IsChange /\ Requested = JsNum(300) /\ last.preVolume = 100
    /\ \E e \in attached :
         /\ ~paused[e] /\ NormalSrc(e)
         /\ elementGainNodes[e].status = "Ready"
         /\ elementGainNodes[e].gain = [whole |-> 3, frac |-> 0]
         /\ \E i \in CallsOf(e) : last.calls[i].mutated

(***************************************************************************)
(* C3 - duplicate request                                                  *)
(***************************************************************************)
\* the request repeats the volume most recently applied and still current
IsDuplicate ==
    /\ IsChange /\ (NumericInRange \/ NumericText)
    /\ last.preNotify = << RequestedVolume >>
    /\ last.preVolume = RequestedVolume

JustStartedOrArrivedPlaying(e) ==
    /\ hasBrowser /\ observing /\ e \in attached /\ e \in last.els
    /\ \/ last.op = "play"
       \/ last.op = "insert" /\ ~paused[e]

\* C4: with the audio facility exposed and the observer installed, when an
\* element of the document with a non-empty, non-ignored source starts
\* playing (or is inserted playing) and its graph construction does not fail,
\* it has a Ready entry with gain currentVolume/100 - 3.0 at volume 300 -
\* through the play listener or the observer callback alone.
C4_NewElementGetsCurrentGain ==
    \A e \in Elements :
        (JustStartedOrArrivedPlaying(e) /\ NormalSrc(e)
            /\ elementGainNodes[e].status # "Failed")
            => /\ elementGainNodes[e].status = "Ready"
               /\ elementGainNodes[e].gain = GainValue(currentVolume)
               /\ (currentVolume = 300
                     => elementGainNodes[e].gain = [whole |-> 3, frac |-> 0])

\* the volume was 300 before the element's graph existed; playing built it
C4_Witness ==
    \E e \in Elements :
        /\ JustStartedOrArrivedPlaying(e) /\ NormalSrc(e) /\ last.op = "play"
        /\ last.preVolume = 300 /\ currentVolume = 300
        /\ elementGainNodes[e] = ReadyEntry([whole |-> 3, frac |-> 0], sharedAudioContext)
        /\ \E i \in CallsOf(e) :
             /\ last.calls[i].before.status = "none"
             /\ last.calls[i].built /\ last.calls[i].mutated

(***************************************************************************)
(* C5 - every request is answered                                          *)
(***************************************************************************)
\* C5: a changeSoundVolume or getSoundVolume request gets exactly one reply,
\* carrying currentVolume as it is after the request: the requested volume
\* when a number within [0, 600] was requested, the prior volume when the
\* handler rejected the request; a getSoundVolume request changes nothing.
C5_ExactlyOneReply ==
    /\ (IsChange \/ IsGet) => last.replies = << currentVolume >>
    /\ (IsChange /\ NumericInRange) => last.replies = << Requested.n >>
    /\ (IsChange /\ last.notifs = << >>) => last.replies = << last.preVolume >>
    /\ IsGet => /\ last.replies = << last.preVolume >>
                /\ NoEffects /\ last.calls = << >>
                /\ lastNotify = last.preNotify

C5_Witness ==
    /\ IsChange /\ Requested = JsNum(601)
    /\ last.preVolume = 300 /\ last.replies = << 300 >>

(***************************************************************************)
(* C6 - applyVolumeToElement is idempotent                                 *)
(***************************************************************************)
\* C6: a call of applyVolumeToElement on an element with a Ready entry
\* returns true, leaves the gain at level/100, and mutates the gain exactly
\* when it differed from level/100: a call with the level the gain already
\* has mutates nothing, so of two successive calls with one level at most
\* the first mutates.
C6_ApplyIsIdempotent ==
    \A i \in DOMAIN last.calls :
        LET c == last.calls[i]
        IN /\ c.before.status = "Ready"
                => /\ c.applied
                   /\ c.mutated <=> (c.before.gain # GainValue(c.volume))
           /\ c.applied
                => \A j \in DOMAIN last.calls :
                     (j > i /\ last.calls[j].el = c.el /\ last.calls[j].volume = c.volume)
                        => (last.calls[j].applied /\ ~last.calls[j].mutated)
           /\ (c.applied /\ \A j \in CallsOf(c.el) : j <= i)
                => elementGainNodes[c.el].gain = GainValue(c.volume)

\* the second of two calls with level 300: the gain is 3.0 already
C6_Witness ==
    \E i \in DOMAIN last.calls :
        /\ last.calls[i].before = ReadyEntry([whole |-> 3, frac |-> 0], sharedAudioContext)
        /\ last.calls[i].volume = 300
        /\ last.calls[i].applied /\ ~last.calls[i].mutated

(***************************************************************************)
(* C7 - sources on ignored hosts                                           *)
(***************************************************************************)
\* C7 (as claimed): for an element whose current source is on an ignored
\* host, every setupAudioContext call returns null and creates no entry,
\* whatever happened to the element before.
C7_IgnoredAlwaysNull ==
    \A i \in DOMAIN last.calls :
        IgnoredSrc(last.calls[i].el)
            => /\ last.calls[i].setup = "null"
               /\ elementGainNodes[last.calls[i].el].status = "none"

\* C7 (amended): for an element whose current source is on an ignored host,
\* setupAudioContext never creates an entry and never constructs a graph; it
\* returns null as long as the element has no entry, and returns the existing
\* entry when one was recorded while the element had another source.
C7_IgnoredNeverBuilds ==
    \A i \in DOMAIN last.calls :
        LET c == last.calls[i]
        IN IgnoredSrc(c.el)
            => /\ ~c.built
               /\ elementGainNodes[c.el].status = c.before.status
               /\ c.before.status = "none" => (c.setup = "null" /\ ~c.applied)
               /\ c.before.status # "none" => c.setup = c.before.status

\* a call on an element with an ignored source and no entry: null, nothing built
C7_Witness ==
    \E i \in DOMAIN last.calls :
        /\ IgnoredSrc(last.calls[i].el)
        /\ last.calls[i].before.status = "none"
        /\ last.calls[i].setup = "null"
        /\ elementGainNodes[last.calls[i].el] = NoEntry

(***************************************************************************)
(* C8 - Failed is permanent                                                *)
(***************************************************************************)
\* C8: once an element's entry is Failed it stays Failed through every later
\* step, and every later setupAudioContext call for it returns the Failed
\* entry without constructing anything (applyVolumeToElement returns false).
C8_FailedIsPermanent ==
    [][ \A e \in Elements :
          elementGainNodes[e].status = "Failed"
            => /\ elementGainNodes'[e] = elementGainNodes[e]
               /\ \A i \in DOMAIN last'.calls :
                    last'.calls[i].el = e
                        => /\ last'.calls[i].setup = "Failed"
                           /\ ~last'.calls[i].built
                           /\ ~last'.calls[i].applied ]_vars

\* a later call found the Failed entry and returned it
C8_Witness ==
    \E i \in DOMAIN last.calls :
        /\ last.calls[i].before = FailedEntry
        /\ last.calls[i].setup = "Failed"
        /\ NormalSrc(last.calls[i].el)
        /\ elementGainNodes[last.calls[i].el] = FailedEntry

(***************************************************************************)
(* C9 - elements left to the companion                                     *)
(***************************************************************************)
\* the run handled a request that changeSoundVolume() was called for
IsApplied == IsChange /\ last.notifs # << >>

\* C9 (as claimed): changeSoundVolume() notifies the companion with the
\* current volume and never calls applyVolumeToElement for an element whose
\* source is on a host left to the companion.
C9_NeverCallsApplyForIgnored ==
    IsApplied
        => /\ last.notifs = << Notification(currentVolume) >>
           /\ \A i \in DOMAIN last.calls : ~IgnoredSrc(last.calls[i].el)

\* C9 (amended): changeSoundVolume() notifies the companion with the current
\* volume; its own loop never calls applyVolumeToElement for an element whose
\* source is on such a host, no entry is built for the element and none of
\* its gains changes.  The one call it can still make for the element is
\* processMediaElement's, on first seeing it already playing, and that call
\* returns false.
C9_IgnoredLeftAlone ==
    IsApplied
        => /\ last.notifs = << Notification(currentVolume) >>
           /\ \A i \in DOMAIN last.calls :
                IgnoredSrc(last.calls[i].el)
                    => /\ last.calls[i].site = "processMediaElement"
                       /\ ~last.calls[i].applied
                       /\ ~last.calls[i].built
                       /\ elementGainNodes[last.calls[i].el] = NoEntry
           /\ \A e \in attached :
                IgnoredSrc(e) => \A i \in DOMAIN last.muts : last.muts[i].el # e
           /\ hasBrowser => attached \subseteq processedElements

\* a request applied while a processed element with a Ready entry sits on an
\* ignored source: notified, and the element is not touched
C9_Witness ==
    /\ IsApplied /\ hasBrowser /\ currentVolume = 300
    /\ \E e \in attached :
         /\ IgnoredSrc(e) /\ ~paused[e]
         /\ CallsOf(e) = {}
         /\ elementGainNodes[e].status = "Ready"
         /\ elementGainNodes[e].gain # GainValue(currentVolume)

(***************************************************************************)
(* C10 - the default volume requested in the default state                 *)
(***************************************************************************)
\* nothing was ever applied, the volume is the default and nothing plays
DefaultQuietRequest ==
    /\ IsChange /\ Requested = JsNum(100)
    /\ last.preVolume = 100 /\ last.preNotify = << >>
    /\ \A e \in attached : paused[e]

LoadUnusable ==
    \/ ~last.request.data.present
    \/ Requested.t # "number"
    \/ Requested.n < 0 \/ Requested.n > 600

\* C11: once loadSavedVolume has completed the then-handler of init has run
\* (the promise resolved), currentVolume lies within [0, 600], and it is 100
\* whenever the read reported an error or the stored value was missing or
\* not a usable volume.
C11_LoadYieldsValidVolume ==
    last.op = "load"
        => /\ observing /\ ~loading
           /\ currentVolume >= 0 /\ currentVolume <= 600
           /\ LoadUnusable => currentVolume = 100

C13_LoadKeepsRequestedVolume ==
    (last.op = "load" /\ last.preNotify # << >>)
        => /\ last.preVolume = last.preNotify[1]
           /\ currentVolume = last.preVolume

(***************************************************************************)
(* C14 - requests take effect in arrival order                             *)
(***************************************************************************)
\* C14: after a changeSoundVolume request, once some request has been
\* applied, currentVolume, the value last handed to persistence and the
\* soundVolume last sent to the companion all equal the volume of the last
\* request applied.
C14_LastAppliedRequestWins ==
    (IsChange /\ lastNotify # << >>)
        => /\ lastWrite = lastNotify
           /\ currentVolume = lastNotify[1]

(***************************************************************************)
(* C15 - an environment without the audio facility                         *)
(***************************************************************************)
\* C15: where the `browser` global is undefined, no AudioContext is ever
\* created, no element ever gets a graph entry (Ready or Failed), no run
\* calls applyVolumeToElement or sets a gain; a request carrying a number
\* within [0, 600] still hands it to persistence and to the companion, once
\* each.
C15_NoAudioWithoutBrowser ==
    ~hasBrowser
        => /\ sharedAudioContext = 0 /\ contextsCreated = 0
           /\ \A e \in Elements : elementGainNodes[e] = NoEntry
           /\ last.calls = << >> /\ last.muts = << >>
           /\ (IsChange /\ NumericInRange)
                => /\ currentVolume = Requested.n
                   /\ last.writes = << Requested.n >>
                   /\ last.notifs = << Notification(Requested.n) >>

\* a request for 300 handled without the facility while a processed element
\* with a usable source is playing in the document
C15_Witness ==
    /\ ~hasBrowser /\ IsChange /\ Requested = JsNum(300)
    /\ last.writes = << 300 >>
    /\ \E e \in attached :
         ~paused[e] /\ NormalSrc(e) /\ e \in processedElements

(***************************************************************************)
(* C16 - Ready entries after a volume request                              *)
(***************************************************************************)
\* C16: with the audio facility exposed, right after a request carrying a
\* volume within [0, 600] every element of the document with a Ready entry
\* has gain currentVolume/100, whatever its source is now.
C16_ReadyGainFollowsRequest ==
    (hasBrowser /\ IsChange /\ (NumericInRange \/ NumericText))
        => \A e \in attached :
              elementGainNodes[e].status = "Ready"
                  => elementGainNodes[e].gain = GainValue(currentVolume)

(***************************************************************************)
(* C17 - what hands the volume to persistence and to the companion         *)
(***************************************************************************)
\* a play event, a pause, a source change, a DOM mutation (with its observer
\* callback) and the storage callback with the initial scan write nothing and
\* notify nobody; all but the storage callback leave currentVolume alone
EventsNeverSaveOrNotify ==
    /\ last.op \in {"play", "pause", "src", "insert", "remove"}
          => /\ currentVolume = last.preVolume
             /\ last.writes = << >> /\ last.notifs = << >>
    /\ last.op = "load" => (last.writes = << >> /\ last.notifs = << >>)

\* C17: play events, the initial scan and observer callbacks cause no
\* persistence write and no notification and leave currentVolume unchanged;
\* a message that does any of these is a changeSoundVolume request carrying
\* a volume within [0, 600].
C17_OnlyValidRequestsSaveAndNotify ==
    /\ EventsNeverSaveOrNotify
    /\ (/\ last.op = "message"
        /\ \/ last.writes # << >>
           \/ last.notifs # << >>
           \/ currentVolume # last.preVolume)
          => (IsChange /\ (NumericInRange \/ NumericText))

(***************************************************************************)
(* C18 - each element is processed once                                    *)
(***************************************************************************)
\* C18: whatever encounters an element (the initial scan, volume requests,
\* observer callbacks, also after removal and re-insertion), the play
\* listener is registered on it at most once - exactly once when it has been
\* processed - and a play event causes at most one applyVolumeToElement
\* call, for the element that started playing.
C18_ProcessedOnce ==
    /\ \A e \in Elements :
         /\ listenerAdds[e] <= 1
         /\ (e \in processedElements) <=> (listenerAdds[e] = 1)
         /\ (e \in playListeners) <=> (e \in processedElements)
    /\ last.op = "play"
          => /\ Len(last.calls) <= 1
             /\ \A i \in DOMAIN last.calls :
                  last.calls[i].el \in last.els /\ last.calls[i].site = "onMediaPlay"

\* an element processed earlier is re-inserted under the observer and met
\* again by processMediaElement (which applies only on first processing, so
\* no call of this run comes from it), then the observer applies the volume
C18_Witness ==
    /\ last.op = "insert" /\ observing /\ hasBrowser
    /\ last.els \subseteq processedElements
    /\ \A e \in last.els : listenerAdds[e] = 1
    /\ last.calls # << >>
    /\ \A i \in DOMAIN last.calls : last.calls[i].site = "observer"
    /\ \E i \in DOMAIN last.calls :
         last.calls[i].el \in last.els /\ last.calls[i].before.status = "Ready"

(***************************************************************************)
(* C19 - an unresolved source can be retried                               *)
(***************************************************************************)
\* C19: a setupAudioContext call on an element that has no entry and whose
\* source is empty or on an ignored host returns null and records no entry
\* (the element stays unresolved); a later applyVolumeToElement call on it,
\* made when its source is non-empty and not ignored, attempts construction:
\* it leaves a Ready or a Failed entry, and when it returns a Ready entry the
\* gain is volume/100 for the volume passed, which is currentVolume.
C19_UnresolvedIsRetried ==
    /\ \A e \in unresolved : elementGainNodes[e] = NoEntry
    /\ \A i \in DOMAIN last.calls :
         LET c == last.calls[i]
         IN c.before.status = "none"
              => IF NormalSrc(c.el)
                 THEN /\ c.el \notin unresolved
                      /\ elementGainNodes[c.el].status \in {"Ready", "Failed"}
                      /\ c.setup = "Ready"
                           => /\ c.built /\ c.applied
                              /\ c.volume = currentVolume
                              /\ elementGainNodes[c.el].status = "Ready"
                              /\ elementGainNodes[c.el].gain = GainValue(currentVolume)
                 ELSE /\ c.setup = "null" /\ ~c.built /\ ~c.applied
                      /\ elementGainNodes[c.el] = NoEntry
                      /\ c.el \in unresolved

\* an element that setupAudioContext had returned null for now has a usable
\* source, and this run's call built its graph and set gain 3.0
C19_Witness ==
    /\ currentVolume = 300
    /\ \E i \in DOMAIN last.calls :
         LET c == last.calls[i]
         IN /\ c.retry /\ c.before.status = "none" /\ NormalSrc(c.el)
            /\ c.setup = "Ready" /\ c.built /\ c.mutated
            /\ elementGainNodes[c.el].gain = [whole |-> 3, frac |-> 0]

(***************************************************************************)
(* C20 - what reaches the persistence key                                  *)
(***************************************************************************)
\* every value handed to storage.local.set, by any run, is a number within
\* [0, 600], and a value whose conversion is NaN or out of range is not written
WritesAreInRange ==
    /\ \A i \in DOMAIN last.writes : last.writes[i] >= 0 /\ last.writes[i] <= 600
    /\ lastWrite # << >> => (lastWrite[1] >= 0 /\ lastWrite[1] <= 600)
    /\ (last.op = "save" /\ ~InRange(ToNumber(Requested))) => last.writes = << >>
    /\ (last.op = "save" /\ InRange(ToNumber(Requested)))
          => last.writes = << ToNumber(Requested).n >>

====
